---- MODULE Spec2Model ----
(***************************************************************************)
(* The view tree of src/main.rs (NodeAttributeValue, NodeKind, Node, the   *)
(* Component implementations Test and App) and its markup serialisation    *)
(* Node::to_html.                                                          *)
(*                                                                         *)
(* A Rust String is modelled as a sequence of one-character strings, so    *)
(* that str::split, format! and the joins of to_html work on characters.   *)
(* An Option or an empty Vec is the empty sequence.  A HashMap is the      *)
(* sequence of its entries in the iteration order of that map instance.    *)
(***************************************************************************)
EXTENDS Integers, Sequences, FiniteSets, TLC

\* Number of Node constructor calls a client makes.
MaxNodes == 3

VARIABLES
    nodes,      \* the Node values the client owns, a stack
    viewCalls,  \* per component type, how many times view() has been called
    out,        \* the last to_html call: <<>> or <<[idx, node, text, prev]>>
    last,       \* the last with_child call: <<>> or <<[self, child, result]>>
    attr,       \* the last NodeAttributeValue built: <<>> or <<[from, input, result]>>
    display     \* its last formatting: <<>> or <<[op, text]>>

vars == <<nodes, viewCalls, out, last, attr, display>>

(***************************************************************************)
(* Strings                                                                 *)
(***************************************************************************)
RECURSIVE Reduce(_, _)
\* Iterator::reduce(|acc, x| format!("{}<sep>{}", acc, x)).unwrap_or_default()
Reduce(items, sep) ==
    IF Len(items) = 0 THEN <<>>
    ELSE IF Len(items) = 1 THEN items[1]
    ELSE Reduce(SubSeq(items, 1, Len(items) - 1), sep) \o sep \o items[Len(items)]

RECURSIVE split(_, _)
\* str::split(c): the pieces between the occurrences of c, empty pieces kept.
split(s, c) ==
    IF \E i \in 1..Len(s) : s[i] = c
    THEN LET i == CHOOSE k \in 1..Len(s) : s[k] = c /\ \A j \in 1..(k - 1) : s[j] # c
         IN  <<SubSeq(s, 1, i - 1)>> \o split(SubSeq(s, i + 1, Len(s)), c)
    ELSE <<s>>

Digit(d) == <<"0", "1", "2", "3", "4", "5", "6", "7", "8", "9">>[d + 1]

RECURSIVE NatToString(_)
NatToString(n) ==
    IF n < 10 THEN <<Digit(n)>> ELSE NatToString(n \div 10) \o <<Digit(n % 10)>>

\* i32::to_string.  The magnitude of a negative x is -(x + 1) + 1, formed
\* digit-wise because the magnitude of i32::MIN is not an i32.
i32_to_string(x) ==
    IF x >= 0 THEN NatToString(x)
    ELSE LET m == -(x + 1)
             q == (m \div 10) + (IF m % 10 = 9 THEN 1 ELSE 0)
             d == ((m % 10) + 1) % 10
         IN  <<"-">> \o (IF q = 0 THEN <<>> ELSE NatToString(q)) \o <<Digit(d)>>

bool_to_string(x) ==
    IF x THEN <<"t", "r", "u", "e">> ELSE <<"f", "a", "l", "s", "e">>

(***************************************************************************)
(* NodeAttributeValue                                                      *)
(***************************************************************************)
AttrString(x) == [variant |-> "String", x |-> x]
AttrNumber(x) == [variant |-> "Number", x |-> x]
AttrBoolean(x) == [variant |-> "Boolean", x |-> x]

as_text(self) ==
    CASE self.variant = "String" -> self.x
      [] self.variant = "Number" -> i32_to_string(self.x)
      [] self.variant = "Boolean" -> bool_to_string(self.x)

\* Mutant of fmt: a string is written without its quotes, as as_text does.
fmtUnquoted(self) ==
    CASE self.variant = "String" -> self.x
      [] self.variant = "Number" -> i32_to_string(self.x)
      [] self.variant = "Boolean" -> bool_to_string(self.x)

\* impl Display for NodeAttributeValue
fmt(self) ==
    CASE self.variant = "String" -> <<"\"">> \o self.x \o <<"\"">>
      [] self.variant = "Number" -> i32_to_string(self.x)
      [] self.variant = "Boolean" -> bool_to_string(self.x)

\* A u32 is held as its two 16-bit halves [hi, lo], the word hi * 2^16 + lo:
\* TLC's integers are 32-bit signed and cannot hold 2^31 or more.
\* x as i32 keeps the 32 bits: bit 31 becomes the sign, worth -2^31.
MinI32 == -2147483647 - 1
MaxI32 == 2147483647

\* Mutant of u32_as_i32: a word of 2^31 or more saturates at i32::MAX.
u32_saturating(x) ==
    IF x.hi >= 32768 THEN MaxI32 ELSE (x.hi * 65536) + x.lo

u32_as_i32(x) ==
    LET bit31 == x.hi \div 32768
        low31 == ((x.hi % 32768) * 65536) + x.lo
    IN  IF bit31 = 1 THEN low31 + MinI32 ELSE low31

from_String(x) == AttrString(x)
from_str(x) == AttrString(x)
from_i32(x) == AttrNumber(x)
from_u32(x) == AttrNumber(u32_as_i32(x))

(***************************************************************************)
(* NodeKind, Node, Component                                               *)
(***************************************************************************)
KindNative(tag) == [variant |-> "Native", tag |-> tag]
KindText(value) == [variant |-> "Text", value |-> value]
KindCustom(component, rendered) ==
    [variant |-> "Custom", component |-> component, rendered |-> rendered]

Components == {"Test", "App"}

\* Mutant of native: the node starts with an attribute.
nativeWithAttribute(tag) ==
    [kind |-> KindNative(tag), children |-> <<>>, on_click |-> <<>>,
     attributes |-> <<[key |-> <<"a">>, val |-> AttrNumber(1)]>>]

native(tag) ==
    [kind |-> KindNative(tag), children |-> <<>>, on_click |-> <<>>,
     attributes |-> <<>>]

text(value) ==
    [kind |-> KindText(value), children |-> <<>>, on_click |-> <<>>,
     attributes |-> <<>>]

\* Mutant of with_child: the child is inserted before the others.
with_child_front(self, child) == [self EXCEPT !.children = <<child>> \o @]

with_child(self, child) == [self EXCEPT !.children = Append(@, child)]

HelloWorld == <<"H", "e", "l", "l", "o", " ", "w", "o", "r", "l", "d">>
Div == <<"d", "i", "v">>
Span == <<"s", "p", "a", "n">>

RECURSIVE view(_)
custom(value) ==
    [kind |-> KindCustom(value, view(value)), children |-> <<>>,
     on_click |-> <<>>, attributes |-> <<>>]

\* Component::view of Test and of App
view(self) ==
    CASE self = "Test" -> text(HelloWorld)
      [] self = "App" -> with_child(native(Div), custom("Test"))

RECURSIVE CustomCalls(_)
\* The view() calls Node::custom(value) makes, in call order: value's own and
\* those of the Node::custom calls in the body of value's view.
CustomCalls(value) ==
    <<value>> \o (CASE value = "Test" -> <<>>
                    [] value = "App" -> CustomCalls("Test"))

(***************************************************************************)
(* Node::to_html                                                           *)
(***************************************************************************)
\* Mutant of IndentLines: the text is not split, only its first line moves.
IndentFirstLine(x) == <<" ", " ">> \o x

\* Mutant of IndentLines: an empty line is left empty.
IndentNonEmpty(x) ==
    LET lines == split(x, "\n")
    IN  Reduce([i \in 1..Len(lines) |->
                   IF Len(lines[i]) = 0 THEN <<>> ELSE <<" ", " ">> \o lines[i]],
               <<"\n">>)

\* x.split('\n').map(|line| format!("  {}", line)).reduce(..).unwrap_or_default()
IndentLines(x) ==
    LET lines == split(x, "\n")
    IN  Reduce([i \in 1..Len(lines) |-> <<" ", " ">> \o lines[i]], <<"\n">>)

\* if self.attributes.len() == 0 { "" } else { " " }
AttrSpace(attributes) == IF Len(attributes) = 0 THEN <<>> ELSE <<" ">>

\* self.attributes.iter().map(|(key, val)| format!("{}={}", key, val)).reduce(..)
AttrText(attributes) ==
    Reduce([i \in 1..Len(attributes) |->
               attributes[i].key \o <<"=">> \o fmt(attributes[i].val)], <<" ">>)

\* Mutant of FormatNative: without children the tags are on adjacent lines.
FormatNativeCompact(tag, space, attrs, children) ==
    <<"<">> \o tag \o space \o attrs \o <<">", "\n">>
        \o (IF Len(children) = 0 THEN <<>> ELSE children \o <<"\n">>)
        \o <<"<", "/">> \o tag \o <<">">>

\* format!("<{}{}{}>\n{}\n</{}>", tag, space, attrs, children, tag)
FormatNative(tag, space, attrs, children) ==
    <<"<">> \o tag \o space \o attrs \o <<">", "\n">> \o children
        \o <<"\n", "<", "/">> \o tag \o <<">">>

RECURSIVE to_html(_)
\* Mutant of CustomHtml: the component's subtree is indented like a child.
CustomHtmlIndented(rendered) == IndentLines(to_html(rendered))

\* NodeKind::Custom { rendered, .. } => rendered.to_html()
CustomHtml(rendered) == to_html(rendered)

\* self.children.iter().map(|child| child.to_html()).map(indent).reduce(..)
ChildrenText(children) ==
    Reduce([i \in 1..Len(children) |-> IndentLines(to_html(children[i]))],
           <<"\n">>)

to_html(self) ==
    CASE self.kind.variant = "Text" -> self.kind.value
      [] self.kind.variant = "Custom" -> CustomHtml(self.kind.rendered)
      [] self.kind.variant = "Native" ->
            FormatNative(self.kind.tag, AttrSpace(self.attributes),
                         AttrText(self.attributes), ChildrenText(self.children))

(***************************************************************************)
(* A client of the constructors, the builder and to_html                   *)
(***************************************************************************)
Tags == {Div, Span}
Texts == {<<"x">>, <<"x", "\n">>, <<>>}

RECURSIVE Size(_)
\* Nodes built by the client's own constructor calls in a sequence of trees.
Size(ns) ==
    IF Len(ns) = 0 THEN 0
    ELSE 1 + Size(Head(ns).children) + Size(Tail(ns))

Init ==
    /\ nodes = <<>>
    /\ viewCalls = [c \in Components |-> 0]
    /\ out = <<>>
    /\ last = <<>>
    /\ attr = <<>>
    /\ display = <<>>

RECURSIVE CallsIn(_)
\* The view() calls made while the trees ns were built.
CallsIn(ns) ==
    IF Len(ns) = 0 THEN <<>>
    ELSE (IF Head(ns).kind.variant = "Custom"
          THEN CustomCalls(Head(ns).kind.component) ELSE <<>>)
            \o CallsIn(Head(ns).children) \o CallsIn(Tail(ns))

Occurrences(s, c) == Cardinality({i \in 1..Len(s) : s[i] = c})

NativeStep(tag) ==
    /\ Size(nodes) < MaxNodes
    /\ nodes' = Append(nodes, native(tag))
    /\ UNCHANGED <<viewCalls, out, last, attr, display>>

TextStep(value) ==
    /\ Size(nodes) < MaxNodes
    /\ nodes' = Append(nodes, text(value))
    /\ UNCHANGED <<viewCalls, out, last, attr, display>>

CustomStep(value) ==
    /\ Size(nodes) < MaxNodes
    /\ nodes' = Append(nodes, custom(value))
    /\ viewCalls' = [c \in Components |->
                        viewCalls[c] + Occurrences(CustomCalls(value), c)]
    /\ UNCHANGED <<out, last, attr, display>>

\* The top of the stack becomes the last child of the node below it.
WithChildStep ==
    /\ Len(nodes) >= 2
    /\ LET n == Len(nodes)
           result == with_child(nodes[n - 1], nodes[n])
       IN  /\ nodes' = Append(SubSeq(nodes, 1, n - 2), result)
           /\ last' = <<[self |-> nodes[n - 1], child |-> nodes[n],
                         result |-> result]>>
    /\ out' = <<>>
    /\ UNCHANGED <<viewCalls, attr, display>>

\* Mutant of ToHtmlStep: to_html calls view again for the Custom nodes of
\* the tree instead of reading their cached subtrees.
ToHtmlStepLazy(i) ==
    /\ i \in 1..Len(nodes)
    /\ out' = <<[idx |-> i, node |-> nodes[i], text |-> to_html(nodes[i]),
                 prev |-> IF out # <<>> /\ out[1].idx = i
                          THEN <<out[1].text>> ELSE <<>>]>>
    /\ viewCalls' = [c \in Components |->
                        viewCalls[c] + Occurrences(CallsIn(<<nodes[i]>>), c)]
    /\ UNCHANGED <<nodes, last, attr, display>>

\* Mutant of ToHtmlStep: to_html takes the children out of the node.
ToHtmlStepTake(i) ==
    /\ i \in 1..Len(nodes)
    /\ out' = <<[idx |-> i, node |-> nodes[i], text |-> to_html(nodes[i]),
                 prev |-> IF out # <<>> /\ out[1].idx = i
                          THEN <<out[1].text>> ELSE <<>>]>>
    /\ nodes' = [nodes EXCEPT ![i].children = <<>>]
    /\ UNCHANGED <<viewCalls, last, attr, display>>

\* pub fn to_html(&self) -> String, called on the i-th node.
ToHtmlStep(i) ==
    /\ i \in 1..Len(nodes)
    /\ out' = <<[idx |-> i, node |-> nodes[i], text |-> to_html(nodes[i]),
                 prev |-> IF out # <<>> /\ out[1].idx = i
                          THEN <<out[1].text>> ELSE <<>>]>>
    /\ UNCHANGED <<nodes, viewCalls, last, attr, display>>

Next ==
    \/ \E tag \in Tags : NativeStep(tag)
    \/ \E value \in Texts : TextStep(value)
    \/ \E value \in Components : CustomStep(value)
    \/ WithChildStep
    \/ \E i \in 1..MaxNodes : ToHtmlStep(i)

Spec == Init /\ [][Next]_vars

(***************************************************************************)
(* to_html applied to any Node value: the struct fields of Node are        *)
(* visible in its module, so a Native node may carry attributes.           *)
(***************************************************************************)
\* Nodes of a tree to_html is applied to.
MaxTreeNodes == 3

Entry(key, val) == [key |-> key, val |-> val]

\* Attribute maps, each in an iteration order of its own.
AttrMaps ==
    { <<>>,
      <<Entry(<<"b">>, AttrString(<<"x">>)), Entry(<<"a">>, AttrNumber(1))>>,
      <<Entry(<<"a">>, AttrNumber(1)), Entry(<<"c">>, AttrBoolean(TRUE))>> }

Leaves == {text(v) : v \in Texts} \cup {custom("App")}

RECURSIVE TreeTable(_)
\* For j in 1..k: the sequences of trees of j - 1 nodes in all, and the
\* trees of exactly j nodes, a Custom node counting as one.
TreeTable(k) ==
    IF k = 0 THEN <<>>
    ELSE LET below == TreeTable(k - 1)
             forests ==
                 IF k = 1 THEN {<<>>}
                 ELSE UNION {{<<t>> \o f : t \in below[j].trees,
                                          f \in below[k - j].forests} :
                               j \in 1..(k - 1)}
             trees ==
                 (IF k = 1 THEN Leaves ELSE {})
                     \cup {[kind |-> KindNative(tag), children |-> f,
                            on_click |-> <<>>, attributes |-> a] :
                              tag \in Tags, a \in AttrMaps, f \in forests}
         IN  Append(below, [forests |-> forests, trees |-> trees])

\* The trees of at most n nodes.
Trees(n) == UNION {TreeTable(n)[k].trees : k \in 1..n}

InitRender ==
    /\ \E t \in Trees(MaxTreeNodes) : nodes = <<t>>
    /\ viewCalls = [c \in Components |-> Occurrences(CallsIn(nodes), c)]
    /\ out = <<>>
    /\ last = <<>>
    /\ attr = <<>>
    /\ display = <<>>

NextRender == \E i \in 1..Len(nodes) : ToHtmlStep(i)

SpecRender == InitRender /\ [][NextRender]_vars

(***************************************************************************)
(* Building and formatting a NodeAttributeValue                            *)
(***************************************************************************)
U32(hi, lo) == [hi |-> hi, lo |-> lo]
U32Values ==
    {U32(hi, lo) : hi \in {0, 1, 32767, 32768, 32769, 65535},
                   lo \in {0, 1, 65535}}
I32Values == {0, 1, -1, 9, 10, -10, 120, MaxI32, MinI32}
Strings == Texts \cup {<<"\"">>}

FromStringStep(x) ==
    /\ attr' = <<[from |-> "String", input |-> x, result |-> from_String(x)]>>
    /\ display' = <<>>
    /\ UNCHANGED <<nodes, viewCalls, out, last>>

FromStrStep(x) ==
    /\ attr' = <<[from |-> "str", input |-> x, result |-> from_str(x)]>>
    /\ display' = <<>>
    /\ UNCHANGED <<nodes, viewCalls, out, last>>

FromI32Step(x) ==
    /\ attr' = <<[from |-> "i32", input |-> x, result |-> from_i32(x)]>>
    /\ display' = <<>>
    /\ UNCHANGED <<nodes, viewCalls, out, last>>

FromU32Step(x) ==
    /\ attr' = <<[from |-> "u32", input |-> x, result |-> from_u32(x)]>>
    /\ display' = <<>>
    /\ UNCHANGED <<nodes, viewCalls, out, last>>

FmtStep ==
    /\ attr # <<>>
    /\ display' = <<[op |-> "fmt", text |-> fmt(attr[1].result)]>>
    /\ UNCHANGED <<nodes, viewCalls, out, last, attr>>

AsTextStep ==
    /\ attr # <<>>
    /\ display' = <<[op |-> "as_text", text |-> as_text(attr[1].result)]>>
    /\ UNCHANGED <<nodes, viewCalls, out, last, attr>>

NextAttr ==
    \/ \E x \in Strings : FromStringStep(x)
    \/ \E x \in Strings : FromStrStep(x)
    \/ \E x \in I32Values : FromI32Step(x)
    \/ \E x \in U32Values : FromU32Step(x)
    \/ FmtStep
    \/ AsTextStep

SpecAttr == Init /\ [][NextAttr]_vars

(***************************************************************************)
(* Operators the properties are stated with.  They do not use the          *)
(* operators of to_html.                                                   *)
(***************************************************************************)
RECURSIVE Joined(_)
\* The lines, each but the last followed by a newline.
Joined(lines) ==
    IF Len(lines) = 0 THEN <<>>
    ELSE IF Len(lines) = 1 THEN Head(lines)
    ELSE Head(lines) \o <<"\n">> \o Joined(Tail(lines))

\* The newline-separated lines of s, empty lines included: the k-th line
\* lies between the (k - 1)-th and the k-th newline of s.
LinesOf(s) ==
    LET nl == {i \in 1..Len(s) : s[i] = "\n"}
        at(k) == IF k = 0 THEN 0
                 ELSE IF k > Cardinality(nl) THEN Len(s) + 1
                 ELSE CHOOSE i \in nl : Cardinality({j \in nl : j < i}) = k - 1
    IN  [k \in 1..(Cardinality(nl) + 1) |-> SubSeq(s, at(k - 1) + 1, at(k) - 1)]

RECURSIVE Concat(_)
Concat(seqs) == IF Len(seqs) = 0 THEN <<>> ELSE Head(seqs) \o Concat(Tail(seqs))

RECURSIVE Spaces(_)
Spaces(k) == IF k = 0 THEN <<>> ELSE <<" ">> \o Spaces(k - 1)

\* Every line of each text of xs, in order, behind two more spaces.
PrefixedLines(xs) ==
    Concat([i \in 1..Len(xs) |->
               [j \in 1..Len(LinesOf(xs[i])) |-> <<" ", " ">> \o LinesOf(xs[i])[j]]])

RECURSIVE Strip(_)
Strip(l) == IF Len(l) > 0 /\ Head(l) = " " THEN Strip(Tail(l)) ELSE l

StartsWith(s, p) == Len(s) >= Len(p) /\ SubSeq(s, 1, Len(p)) = p

Tag(n) == n.kind.tag
OpenBare(n) == <<"<">> \o Tag(n) \o <<">">>
Close(n) == <<"<", "/">> \o Tag(n) \o <<">">>
IsNative(n) == n.kind.variant = "Native"
IsText(n) == n.kind.variant = "Text"
IsCustom(n) == n.kind.variant = "Custom"

RECURSIVE AllNodes(_)
\* Every node of the trees ns: children and cached subtrees included.
AllNodes(ns) ==
    IF Len(ns) = 0 THEN {}
    ELSE LET n == Head(ns)
         IN  {n} \cup AllNodes(n.children)
                 \cup (IF IsCustom(n) THEN AllNodes(<<n.kind.rendered>>) ELSE {})
                 \cup AllNodes(Tail(ns))

RECURSIVE CountCustom(_, _)
\* How many Custom nodes of component c the trees ns hold, at any depth.
CountCustom(ns, c) ==
    IF Len(ns) = 0 THEN 0
    ELSE LET n == Head(ns)
         IN  (IF IsCustom(n) /\ n.kind.component = c THEN 1 ELSE 0)
                 + CountCustom(n.children, c)
                 + (IF IsCustom(n) THEN CountCustom(<<n.kind.rendered>>, c) ELSE 0)
                 + CountCustom(Tail(ns), c)

RECURSIVE Expand(_)
\* The tree with every Custom node replaced by its component's view.
Expand(n) ==
    IF IsCustom(n) THEN Expand(view(n.kind.component))
    ELSE [n EXCEPT !.children = [i \in 1..Len(n.children) |-> Expand(n.children[i])]]

RECURSIVE DepthLines(_, _)
\* The lines of n below d Native ancestors, each behind 2 * d spaces; the
\* opening tag is the one n renders without its children.
DepthLines(n, d) ==
    IF IsText(n)
    THEN [i \in 1..Len(LinesOf(n.kind.value)) |-> Spaces(2 * d) \o LinesOf(n.kind.value)[i]]
    ELSE IF IsCustom(n) THEN DepthLines(n.kind.rendered, d)
    ELSE <<Spaces(2 * d) \o LinesOf(to_html([n EXCEPT !.children = <<>>]))[1]>>
            \o (IF Len(n.children) = 0 THEN <<Spaces(2 * d)>>
                ELSE Concat([i \in 1..Len(n.children) |->
                                DepthLines(n.children[i], d + 1)]))
            \o <<Spaces(2 * d) \o Close(n)>>

Rendered == out # <<>>
RNode == out[1].node
RText == out[1].text

(***************************************************************************)
(* C1                                                                      *)
(***************************************************************************)
DivSpanX == with_child(native(Div), with_child(native(Span), text(<<"x">>)))

\* C1 as stated: rendering div > span > "x" gives the five lines <div>,
\* "  <span>", "  x", "  </span>", </div>, the line x behind two spaces.
C1_TwoSpaces ==
    (Rendered /\ RNode = DivSpanX) =>
        RText = Joined(<< <<"<", "d", "i", "v", ">">>,
                          <<" ", " ", "<", "s", "p", "a", "n", ">">>,
                          <<" ", " ", "x">>,
                          <<" ", " ", "<", "/", "s", "p", "a", "n", ">">>,
                          <<"<", "/", "d", "i", "v", ">">> >>)

\* C1 amended: rendering div > span > "x" gives the five lines <div>,
\* "  <span>", "    x", "  </span>", </div>: the line x is behind four
\* spaces, two for each of its two Native ancestors.
C1_FourSpaces ==
    (Rendered /\ RNode = DivSpanX) =>
        RText = Joined(<< <<"<", "d", "i", "v", ">">>,
                          <<" ", " ", "<", "s", "p", "a", "n", ">">>,
                          <<" ", " ", " ", " ", "x">>,
                          <<" ", " ", "<", "/", "s", "p", "a", "n", ">">>,
                          <<"<", "/", "d", "i", "v", ">">> >>)

C1_Witness == Rendered /\ RNode = DivSpanX /\ Len(RText) = 37

(***************************************************************************)
(* C3                                                                      *)
(***************************************************************************)
\* C3: a Native node without children and without attributes renders to
\* <tag>, newline, newline, </tag>.
C3_Childless ==
    (Rendered /\ IsNative(RNode) /\ RNode.children = <<>>
        /\ RNode.attributes = <<>>) =>
        RText = OpenBare(RNode) \o <<"\n", "\n">> \o Close(RNode)

C3_Witness ==
    /\ Rendered /\ RNode = native(Span)
    /\ LinesOf(RText) = << <<"<", "s", "p", "a", "n", ">">>, <<>>,
                           <<"<", "/", "s", "p", "a", "n", ">">> >>

(***************************************************************************)
(* C4                                                                      *)
(***************************************************************************)
\* C4: a rendered tree renders as the tree with every Custom node replaced
\* by its component's view, whether the Custom node is the root, under
\* Native nodes or inside another component's view.
C4_Transparent ==
    /\ \A n \in AllNodes(nodes) :
          IsCustom(n) => to_html(n) = to_html(view(n.kind.component))
    /\ Rendered => RText = to_html(Expand(RNode))

C4_Witness ==
    /\ Rendered
    /\ RNode = with_child(native(Span), custom("App"))
    /\ RText = to_html(with_child(native(Span),
                           with_child(native(Div), text(HelloWorld))))

(***************************************************************************)
(* C6                                                                      *)
(***************************************************************************)
\* C6: every Custom node holds the view of its component as built by
\* Node::custom, view has been called once per Custom node, and a to_html
\* call leaves both so, however often it is repeated.
C6_Eager ==
    /\ \A n \in AllNodes(nodes) :
          IsCustom(n) => n.kind.rendered = view(n.kind.component)
    /\ \A c \in Components : viewCalls[c] = CountCustom(nodes, c)
    /\ Rendered => nodes[out[1].idx] = RNode

C6_Witness ==
    /\ Rendered /\ out[1].prev # <<>>
    /\ RNode = with_child(native(Span), custom("App"))
    /\ viewCalls = [c \in Components |-> 1]

(***************************************************************************)
(* C9                                                                      *)
(***************************************************************************)
\* C9: with_child appends the child to the receiver's children and changes
\* no other field; on a Text or Custom receiver the rendering stays the
\* same, whatever the attributes, and a Text renders to its string; on a
\* Native receiver the child's rendering, every line behind two spaces, is
\* added as the last lines before the closing tag.
C9_WithChild ==
    last # <<>> =>
        LET s == last[1].self
            c == last[1].child
            r == last[1].result
            old == to_html(s)
            closing == <<"\n">> \o Close(s)
        IN  /\ r.children = s.children \o <<c>>
            /\ r.kind = s.kind
            /\ r.on_click = s.on_click
            /\ r.attributes = s.attributes
            /\ nodes # <<>>
            /\ \E i \in 1..Len(nodes) : nodes[i] = r \/ r \in AllNodes(<<nodes[i]>>)
            /\ (IsText(s) \/ IsCustom(s)) =>
                  /\ to_html(r) = old
                  /\ \A a \in AttrMaps :
                        to_html([r EXCEPT !.attributes = a]) = old
            /\ IsText(s) => to_html(r) = s.kind.value
            /\ IsNative(s) =>
                  to_html(r) =
                      SubSeq(old, 1, Len(old) - Len(closing))
                          \o (IF Len(s.children) = 0 THEN <<>> ELSE <<"\n">>)
                          \o Joined(PrefixedLines(<<to_html(c)>>))
                          \o closing

C9_Witness ==
    /\ last # <<>>
    /\ IsCustom(last[1].self)
    /\ IsNative(last[1].child)
    /\ Rendered /\ RNode = last[1].result
    /\ RText = HelloWorld

(***************************************************************************)
(* C10                                                                     *)
(***************************************************************************)
\* C10: every node of every tree built with native, text, custom and
\* with_child, cached subtrees included, has no on_click message and no
\* attribute, and every opening tag line of a rendering is <tag> alone.
C10_NoAttributes ==
    /\ \A n \in AllNodes(nodes) : n.on_click = <<>> /\ n.attributes = <<>>
    /\ Rendered =>
          \A i \in 1..Len(LinesOf(RText)) :
              LET l == Strip(LinesOf(RText)[i])
              IN  (StartsWith(l, <<"<">>) /\ ~StartsWith(l, <<"<", "/">>)) =>
                      \E tag \in Tags : l = <<"<">> \o tag \o <<">">>

C10_Witness ==
    /\ Rendered
    /\ RNode = with_child(native(Div), custom("App"))
    /\ \E i \in 1..Len(LinesOf(RText)) :
          LinesOf(RText)[i] = <<" ", " ", "<", "d", "i", "v", ">">>

(***************************************************************************)
(* C2, C5, C7: to_html on any tree                                         *)
(***************************************************************************)
\* C2: a Native node renders to its opening tag line, the lines of its
\* children's renderings in child order, each behind two more spaces (one
\* empty line when it has no children), and its closing tag line; so a line
\* of a node with d Native ancestors is behind 2 * d spaces.
C2_Indentation ==
    Rendered =>
        /\ IsNative(RNode) =>
              LET ls == LinesOf(RText)
                  kids == [i \in 1..Len(RNode.children) |->
                              to_html(RNode.children[i])]
              IN  /\ Len(ls) >= 3
                  /\ StartsWith(ls[1], <<"<">> \o Tag(RNode))
                  /\ ls[1][Len(ls[1])] = ">"
                  /\ ls[Len(ls)] = Close(RNode)
                  /\ SubSeq(ls, 2, Len(ls) - 1) =
                        (IF Len(kids) = 0 THEN << <<>> >> ELSE PrefixedLines(kids))
        /\ RText = Joined(DepthLines(RNode, 0))

C2_Witness ==
    /\ Rendered
    /\ IsNative(RNode) /\ Len(RNode.children) = 1
    /\ IsNative(RNode.children[1])
    /\ RNode.children[1].children = <<text(<<"x", "\n">>)>>
    /\ LinesOf(RText)[3] = <<" ", " ", " ", " ", "x">>
    /\ LinesOf(RText)[4] = <<" ", " ", " ", " ">>

\* A key, "=", and the value: a string between double quotes, a number or
\* a boolean bare.
ShownEntry(e) ==
    e.key \o <<"=">>
        \o (IF e.val.variant = "String" THEN <<"\"">> \o e.val.x \o <<"\"">>
            ELSE IF e.val.variant = "Number" THEN i32_to_string(e.val.x)
            ELSE bool_to_string(e.val.x))

RECURSIVE SpaceJoined(_)
SpaceJoined(items) ==
    IF Len(items) = 0 THEN <<>>
    ELSE IF Len(items) = 1 THEN Head(items)
    ELSE Head(items) \o <<" ">> \o SpaceJoined(Tail(items))

A1 == Entry(<<"a">>, AttrNumber(1))
BX == Entry(<<"b">>, AttrString(<<"x">>))
CT == Entry(<<"c">>, AttrBoolean(TRUE))

\* C5: the first line of a Native node with attributes is <tag, a space,
\* one key=value entry per key in some order with single spaces between,
\* and >; a string value is quoted, a number or boolean bare; {a: 1, b: "x"}
\* gives a=1 and b="x"; without attributes the first line is <tag>.
C5_OpeningTag ==
    (Rendered /\ IsNative(RNode)) =>
        LET first == LinesOf(RText)[1]
            as == RNode.attributes
            n == Len(as)
        IN  /\ \A i, j \in 1..n : as[i].key = as[j].key => i = j
            /\ n = 0 => first = OpenBare(RNode)
            /\ n > 0 =>
                  \E p \in Permutations(1..n) :
                      first = <<"<">> \o Tag(RNode) \o <<" ">>
                                  \o SpaceJoined([i \in 1..n |-> ShownEntry(as[p[i]])])
                                  \o <<">">>
            /\ {as[i] : i \in 1..n} = {A1, BX} =>
                  \/ first = <<"<">> \o Tag(RNode)
                               \o <<" ", "a", "=", "1", " ", "b", "=", "\"", "x", "\"", ">">>
                  \/ first = <<"<">> \o Tag(RNode)
                               \o <<" ", "b", "=", "\"", "x", "\"", " ", "a", "=", "1", ">">>

C5_Witness ==
    /\ Rendered /\ IsNative(RNode)
    /\ RNode.attributes = <<BX, A1>>
    /\ LinesOf(RText)[1] =
          <<"<", "d", "i", "v", " ", "b", "=", "\"", "x", "\"", " ", "a", "=", "1", ">">>

\* C7: a to_html call leaves the tree as it was, and a repeated call on the
\* same tree returns the text of the call before.
C7_Pure ==
    Rendered =>
        /\ nodes[out[1].idx] = RNode
        /\ out[1].prev # <<>> => out[1].prev[1] = RText
        /\ viewCalls = [c \in Components |-> Occurrences(CallsIn(nodes), c)]

C7_Witness ==
    /\ Rendered /\ out[1].prev # <<>>
    /\ IsNative(RNode) /\ Len(RNode.attributes) = 2
    /\ Len(RNode.children) = 2

(***************************************************************************)
(* C8                                                                      *)
(***************************************************************************)
\* C8: from a u32 x the value built is Number(x) when x <= 2^31 - 1 and
\* Number(x - 2^32) when x >= 2^31, always a Number within the i32 range.
\* With x = hi * 2^16 + lo, x - 2^32 is (hi - 2^16) * 2^16 + lo.
C8_Wraps ==
    (attr # <<>> /\ attr[1].from = "u32") =>
        LET x == attr[1].input
            r == attr[1].result
        IN  /\ r.variant = "Number"
            /\ r.x >= MinI32 /\ r.x <= MaxI32
            /\ x.hi < 32768 => r.x = (x.hi * 65536) + x.lo
            /\ x.hi >= 32768 => r.x = ((x.hi - 65536) * 65536) + x.lo

C8_Witness ==
    /\ attr # <<>> /\ attr[1].from = "u32"
    /\ attr[1].input = U32(65535, 65535)
    /\ attr[1].result = AttrNumber(-1)
    /\ display # <<>> /\ display[1].text = <<"-", "1">>

====
